---- MODULE Spec2Model ----
(***************************************************************************)
(* Model of raidprotect's interaction context resolution                   *)
(* (raidprotect/src/interaction/context.rs) and of the pending component   *)
(* cache model (model/src/cache/model/component.rs).                       *)
(***************************************************************************)
EXTENDS Integers, Sequences, FiniteSets, TLC

\* ------------------------------------------------------------------ bounds
NumGuilds == 2
NumUsers == 2
MaxTime == 300

\* ------------------------------------------------------------ option/result
None == [some |-> FALSE]
Some(x) == [some |-> TRUE, val |-> x]

Ok(x) == [ok |-> TRUE, val |-> x]
Err(e) == [ok |-> FALSE, err |-> e]

\* anyhow!("...") : an untyped error that carries only its message
anyhow(msg) == [msg |-> msg]

\* ------------------------------------------------------------------ inputs
\* Two resolutions run concurrently, one logical task per inbound event.
Tasks == {"t1", "t2"}
GuildIds == 1..NumGuilds
Users == {[id |-> n] : n \in 1..NumUsers}
PartialMembers == {[user |-> u] : u \in {None} \cup {Some(x) : x \in Users}}

OptGuildIds == {None} \cup {Some(g) : g \in GuildIds}
OptMembers == {None} \cup {Some(m) : m \in PartialMembers}
OptUsers == {None} \cup {Some(u) : u \in Users}

RawEvent(kind, data, guild_id, member, user) ==
    [kind |-> kind, id |-> 11, application_id |-> 22, token |-> "token",
     data |-> data, channel_id |-> 33, guild_id |-> guild_id,
     member |-> member, user |-> user, locale |-> "fr"]

ApplicationCommands ==
    {RawEvent("command", "CommandData", g, m, u) :
        g \in OptGuildIds, m \in OptMembers, u \in OptUsers}
MessageComponentInteractions ==
    {RawEvent("component", "MessageComponentInteractionData", g, m, u) :
        g \in OptGuildIds, m \in OptMembers, u \in OptUsers}
ModalSubmitInteractions ==
    {RawEvent("modal", "ModalInteractionData", g, m, u) :
        g \in OptGuildIds, m \in OptMembers, u \in OptUsers}

\* ------------------------------------------------------------------- state
VARIABLES pc, event, frame, calls, reply, result, db,
          now, store, op, lastPut

ctxVars == <<pc, event, frame, calls, reply, result, db>>
storeVars == <<now, store, op, lastPut>>
vars == <<pc, event, frame, calls, reply, result, db, now, store, op, lastPut>>

\* What a resolution does up to its first suspension point: it either returns
\* a result, or awaits get_guild_or_create(call) holding its locals in frame.
Return(r) == [await |-> FALSE, result |-> r]
Await(guild_id, member, user) ==
    [await |-> TRUE, call |-> guild_id,
     frame |-> [guild_id |-> guild_id, member |-> member, user |-> user]]

\* ---------------------------------------------- InteractionContext<CommandData>
from_private_command(command) ==
    IF command.user = None
    THEN Err(anyhow("missing user data"))
    ELSE Ok([id |-> command.id,
             application_id |-> command.application_id,
             token |-> command.token,
             data |-> command.data,
             channel |-> command.channel_id,
             guild |-> None,
             user |-> command.user.val,
             locale |-> command.locale])

\* Bug: the accessor is called before the embedded user is checked.
from_guild_command_call_first(command, guild_id) ==
    IF command.member = None
    THEN Return(Err(anyhow("missing member data")))
    ELSE LET member == command.member.val IN
         Await(guild_id, member,
               IF member.user = None THEN member.user ELSE member.user.val)

from_guild_command(command, guild_id) ==
    IF command.member = None
    THEN Return(Err(anyhow("missing member data")))
    ELSE LET member == command.member.val IN
         IF member.user = None
         THEN Return(Err(anyhow("missing user data")))
         ELSE Await(guild_id, member, member.user.val)

\* Bug: the guild path forgets to populate the guild context.
from_guild_command_resumed_no_guild(command, fr, guild) ==
    IF ~guild.ok
    THEN Err(guild.err)
    ELSE Ok([id |-> command.id,
             application_id |-> command.application_id,
             token |-> command.token,
             data |-> command.data,
             channel |-> command.channel_id,
             guild |-> None,
             user |-> fr.user,
             locale |-> command.locale])

from_guild_command_resumed(command, fr, guild) ==
    IF ~guild.ok
    THEN Err(guild.err)
    ELSE Ok([id |-> command.id,
             application_id |-> command.application_id,
             token |-> command.token,
             data |-> command.data,
             channel |-> command.channel_id,
             guild |-> Some([id |-> fr.guild_id,
                             guild |-> guild.val,
                             member |-> fr.member]),
             user |-> fr.user,
             locale |-> command.locale])

from_command(command) ==
    IF command.guild_id # None
    THEN from_guild_command(command, command.guild_id.val)
    ELSE Return(from_private_command(command))

\* ------------------------------ InteractionContext<MessageComponentInteractionData>
from_private_component(component) ==
    IF component.user = None
    THEN Err(anyhow("missing user data"))
    ELSE Ok([id |-> component.id,
             application_id |-> component.application_id,
             token |-> component.token,
             data |-> component.data,
             channel |-> component.channel_id,
             guild |-> None,
             user |-> component.user.val,
             locale |-> component.locale])

\* Bug: the member check reports the message of the user check.
from_guild_component_wrong_message(component, guild_id) ==
    IF component.member = None
    THEN Return(Err(anyhow("missing user data")))
    ELSE LET member == component.member.val IN
         IF member.user = None
         THEN Return(Err(anyhow("missing user data")))
         ELSE Await(guild_id, member, member.user.val)

from_guild_component(component, guild_id) ==
    IF component.member = None
    THEN Return(Err(anyhow("missing member data")))
    ELSE LET member == component.member.val IN
         IF member.user = None
         THEN Return(Err(anyhow("missing user data")))
         ELSE Await(guild_id, member, member.user.val)

\* Bug: the channel is filled from the interaction id.
from_guild_component_resumed_wrong_channel(component, fr, guild) ==
    IF ~guild.ok
    THEN Err(guild.err)
    ELSE Ok([id |-> component.id,
             application_id |-> component.application_id,
             token |-> component.token,
             data |-> component.data,
             channel |-> component.id,
             guild |-> Some([id |-> fr.guild_id,
                             guild |-> guild.val,
                             member |-> fr.member]),
             user |-> fr.user,
             locale |-> component.locale])

from_guild_component_resumed(component, fr, guild) ==
    IF ~guild.ok
    THEN Err(guild.err)
    ELSE Ok([id |-> component.id,
             application_id |-> component.application_id,
             token |-> component.token,
             data |-> component.data,
             channel |-> component.channel_id,
             guild |-> Some([id |-> fr.guild_id,
                             guild |-> guild.val,
                             member |-> fr.member]),
             user |-> fr.user,
             locale |-> component.locale])

\* Bug: an event that carries a top-level user is resolved as a private one.
from_component_user_first(component) ==
    IF component.guild_id # None /\ component.user = None
    THEN from_guild_component(component, component.guild_id.val)
    ELSE Return(from_private_component(component))

from_component(component) ==
    IF component.guild_id # None
    THEN from_guild_component(component, component.guild_id.val)
    ELSE Return(from_private_component(component))

\* ----------------------------------------- InteractionContext<ModalInteractionData>
\* Bug: a private event without a top-level user falls back to the member's user.
from_private_modal_member_fallback(modal) ==
    IF modal.user = None
    THEN IF modal.member # None /\ modal.member.val.user # None
         THEN Ok([id |-> modal.id,
                  application_id |-> modal.application_id,
                  token |-> modal.token,
                  data |-> modal.data,
                  channel |-> modal.channel_id,
                  guild |-> None,
                  user |-> modal.member.val.user.val,
                  locale |-> modal.locale])
         ELSE Err(anyhow("missing user data"))
    ELSE Ok([id |-> modal.id,
             application_id |-> modal.application_id,
             token |-> modal.token,
             data |-> modal.data,
             channel |-> modal.channel_id,
             guild |-> None,
             user |-> modal.user.val,
             locale |-> modal.locale])

from_private_modal(modal) ==
    IF modal.user = None
    THEN Err(anyhow("missing user data"))
    ELSE Ok([id |-> modal.id,
             application_id |-> modal.application_id,
             token |-> modal.token,
             data |-> modal.data,
             channel |-> modal.channel_id,
             guild |-> None,
             user |-> modal.user.val,
             locale |-> modal.locale])

from_guild_modal(modal, guild_id) ==
    IF modal.member = None
    THEN Return(Err(anyhow("missing member data")))
    ELSE LET member == modal.member.val IN
         IF member.user = None
         THEN Return(Err(anyhow("missing user data")))
         ELSE Await(guild_id, member, member.user.val)

\* Bug: a failure of the accessor is swallowed and a default record is used.
from_guild_modal_resumed_swallows(modal, fr, guild) ==
    Ok([id |-> modal.id,
        application_id |-> modal.application_id,
        token |-> modal.token,
        data |-> modal.data,
        channel |-> modal.channel_id,
        guild |-> Some([id |-> fr.guild_id,
                        guild |-> IF guild.ok THEN guild.val
                                  ELSE [id |-> fr.guild_id, config |-> "default"],
                        member |-> fr.member]),
        user |-> fr.user,
        locale |-> modal.locale])

\* Bug: the top-level user is preferred over the member's user.
from_guild_modal_resumed_top_level_user(modal, fr, guild) ==
    IF ~guild.ok
    THEN Err(guild.err)
    ELSE Ok([id |-> modal.id,
             application_id |-> modal.application_id,
             token |-> modal.token,
             data |-> modal.data,
             channel |-> modal.channel_id,
             guild |-> Some([id |-> fr.guild_id,
                             guild |-> guild.val,
                             member |-> fr.member]),
             user |-> IF modal.user # None THEN modal.user.val ELSE fr.user,
             locale |-> modal.locale])

from_guild_modal_resumed(modal, fr, guild) ==
    IF ~guild.ok
    THEN Err(guild.err)
    ELSE Ok([id |-> modal.id,
             application_id |-> modal.application_id,
             token |-> modal.token,
             data |-> modal.data,
             channel |-> modal.channel_id,
             guild |-> Some([id |-> fr.guild_id,
                             guild |-> guild.val,
                             member |-> fr.member]),
             user |-> fr.user,
             locale |-> modal.locale])

from_modal(modal) ==
    IF modal.guild_id # None
    THEN from_guild_modal(modal, modal.guild_id.val)
    ELSE Return(from_private_modal(modal))

\* ------------------------------------------------ Guild Config Accessor
\* The documents of the guild collection, in insertion order.
GuildNew(guild_id) == [id |-> guild_id, config |-> "default"]

GuildDocs(guild_id) == {i \in 1..Len(db) : db[i].id = guild_id}

DependencyError == anyhow("DependencyError")

\* ----------------------------------------------------------------- actions
\* A task starts resolving ev; step is what the entry point did up to its
\* first suspension point.
Begin(t, ev, step) ==
    /\ pc[t] = "idle"
    /\ event' = [event EXCEPT ![t] = Some(ev)]
    /\ IF step.await
       THEN /\ pc' = [pc EXCEPT ![t] = "await"]
            /\ frame' = [frame EXCEPT ![t] = Some(step.frame)]
            /\ calls' = [calls EXCEPT ![t] = Append(@, step.call)]
            /\ UNCHANGED result
       ELSE /\ pc' = [pc EXCEPT ![t] = "done"]
            /\ result' = [result EXCEPT ![t] = Some(step.result)]
            /\ UNCHANGED <<frame, calls>>
    /\ UNCHANGED <<reply, db>>
    /\ UNCHANGED storeVars

FromCommand(t) ==
    \E command \in ApplicationCommands : Begin(t, command, from_command(command))

FromComponent(t) ==
    \E component \in MessageComponentInteractions :
        Begin(t, component, from_component(component))

FromModal(t) ==
    \E modal \in ModalSubmitInteractions : Begin(t, modal, from_modal(modal))

\* Bug: the accessor creates a record without looking for an existing one.
GetGuildOrCreate_always_creates(t) ==
    /\ pc[t] = "await"
    /\ reply[t] = None
    /\ LET guild_id == calls[t][Len(calls[t])] IN
       /\ db' = Append(db, GuildNew(guild_id))
       /\ reply' = [reply EXCEPT ![t] = Some(Ok(GuildNew(guild_id)))]
    /\ UNCHANGED <<pc, event, frame, calls, result>>
    /\ UNCHANGED storeVars

\* The accessor serves the call of task t: get-or-create in one atomic step.
GetGuildOrCreate(t) ==
    /\ pc[t] = "await"
    /\ reply[t] = None
    /\ LET guild_id == calls[t][Len(calls[t])] IN
       IF GuildDocs(guild_id) = {}
       THEN /\ db' = Append(db, GuildNew(guild_id))
            /\ reply' = [reply EXCEPT ![t] = Some(Ok(GuildNew(guild_id)))]
       ELSE /\ reply' = [reply EXCEPT ![t] =
                            Some(Ok(db[CHOOSE i \in GuildDocs(guild_id) : TRUE]))]
            /\ UNCHANGED db
    /\ UNCHANGED <<pc, event, frame, calls, result>>
    /\ UNCHANGED storeVars

\* The accessor fails the call of task t (store unavailable).
GetGuildOrCreateFails(t) ==
    /\ pc[t] = "await"
    /\ reply[t] = None
    /\ reply' = [reply EXCEPT ![t] = Some(Err(DependencyError))]
    /\ UNCHANGED <<pc, event, frame, calls, result, db>>
    /\ UNCHANGED storeVars

Resume(t, kind, r) ==
    /\ pc[t] = "await"
    /\ reply[t] # None
    /\ event[t].val.kind = kind
    /\ pc' = [pc EXCEPT ![t] = "done"]
    /\ result' = [result EXCEPT ![t] = Some(r)]
    /\ UNCHANGED <<event, frame, calls, reply, db>>
    /\ UNCHANGED storeVars

ResumeGuildCommand(t) ==
    Resume(t, "command",
           from_guild_command_resumed(event[t].val, frame[t].val, reply[t].val))

ResumeGuildComponent(t) ==
    Resume(t, "component",
           from_guild_component_resumed(event[t].val, frame[t].val, reply[t].val))

ResumeGuildModal(t) ==
    Resume(t, "modal",
           from_guild_modal_resumed(event[t].val, frame[t].val, reply[t].val))

\* ------------------------------------------------------ PendingComponent
Handlers == {"h1", "h2"}
ComponentIds == {"x7Kq", "Zp3w"}
UserIdOf(u) == [nonzero |-> u.id]
ModlogTypes == {"Ban"}
InteractionResponses == {"response"}
SanctionTargets == {[id |-> 1]}

PostInChatButton(component_id, response, author_id) ==
    [variant |-> "PostInChatButton",
     component |-> [id |-> component_id, response |-> response,
                    author_id |-> author_id]]

Sanction(component_id, kind, user) ==
    [variant |-> "Sanction",
     component |-> [id |-> component_id, kind |-> kind, user |-> user]]

PendingComponents ==
    {PostInChatButton(i, r, UserIdOf(u)) :
        i \in ComponentIds, r \in InteractionResponses, u \in Users}
    \cup {Sanction(i, k, u) :
            i \in ComponentIds, k \in ModlogTypes, u \in SanctionTargets}

\* Bug: the sanction's identifier is taken from the targeted user.
id_sanction_user(self) ==
    CASE self.variant = "PostInChatButton" -> self.component.id
      [] self.variant = "Sanction" -> ToString(self.component.user.id)

id(self) ==
    CASE self.variant = "PostInChatButton" -> self.component.id
      [] self.variant = "Sanction" -> self.component.id

\* Bug: five minutes given in milliseconds.
EXPIRES_AFTER_millis == Some(5 * 60 * 1000)

\* Bug: five minutes given in minutes.
EXPIRES_AFTER_minutes == Some(5)

EXPIRES_AFTER == Some(5 * 60)

\* Bug: a prefix that differs from the one the records are looked up under.
key_from_other_prefix(component_id) == "pending_component:" \o component_id

key_from(component_id) == "pending:component:" \o component_id

\* Bug: the write key is namespaced by the variant.
key_by_variant(self) == key_from(self.variant \o ":" \o id(self))

\* Bug: sanctions are written under a namespace of their own.
key_sanction_namespace(self) ==
    IF self.variant = "Sanction"
    THEN "pending:sanction:" \o id(self)
    ELSE key_from(id(self))

key(self) == key_from(id(self))

\* serde: the variant name tags the record; author_id goes through IdAsU64.
IdAsU64_serialize(user_id) == user_id.nonzero
IdAsU64_deserialize(n) == [nonzero |-> n]

Serialize(self) ==
    CASE self.variant = "PostInChatButton" ->
            [tag |-> "PostInChatButton",
             id |-> self.component.id,
             response |-> self.component.response,
             author_id |-> IdAsU64_serialize(self.component.author_id)]
      [] self.variant = "Sanction" ->
            [tag |-> "Sanction",
             id |-> self.component.id,
             kind |-> self.component.kind,
             user |-> self.component.user]

Deserialize(value) ==
    CASE value.tag = "PostInChatButton" ->
            Ok(PostInChatButton(value.id, value.response,
                                IdAsU64_deserialize(value.author_id)))
      [] value.tag = "Sanction" ->
            Ok(Sanction(value.id, value.kind, value.user))
      [] OTHER -> Err(DependencyError)

\* ------------------------------------------------------ key-value store
\* A record is visible until its expiration time; nothing removes it.
Live(entry) == entry.expires_at = None \/ now < entry.expires_at.val

Lookup(k) ==
    IF k \in DOMAIN store /\ Live(store[k]) THEN Some(store[k].value) ELSE None

Idle == [type |-> "idle"]
InFlight(h) == op[h].type = "put"

\* put(component): the handler serializes the component and sends it with its
\* key and expiration; the call is then in flight.
PutCall(h) ==
    /\ ~InFlight(h)
    /\ \E c \in PendingComponents :
           op' = [op EXCEPT ![h] =
                     [type |-> "put", component |-> c, key |-> key(c),
                      value |-> Serialize(c), expires |-> EXPIRES_AFTER,
                      overlapped |-> FALSE]]
    /\ UNCHANGED <<now, store, lastPut>>
    /\ UNCHANGED ctxVars

\* The store applies the write of h in one step, and the call completes.
PutApply(h) ==
    /\ InFlight(h)
    /\ LET p == op[h]
           cid == p.component.component.id
       IN /\ store' = (p.key :> [value |-> p.value,
                                 expires_at |->
                                     IF p.expires = None THEN None
                                     ELSE Some(now + p.expires.val)])
                      @@ store
          /\ lastPut' = [lastPut EXCEPT ![cid] =
                            Some([c |-> p.component, at |-> now,
                                  over |-> IF p.overlapped THEN "raced"
                                           ELSE IF @ # None /\ @.val.c # p.component
                                                THEN "after"
                                                ELSE "none"])]
          /\ op' = [g \in Handlers |->
                      IF g = h THEN Idle
                      ELSE IF /\ InFlight(g)
                              /\ op[g].component.component.id = cid
                              /\ op[g].component # p.component
                           THEN [op[g] EXCEPT !.overlapped = TRUE]
                           ELSE op[g]]
    /\ UNCHANGED now
    /\ UNCHANGED ctxVars

\* Bug: a get takes the record out of the store.
Get_consumes(h) ==
    /\ ~InFlight(h)
    /\ \E cid \in ComponentIds :
           LET found == Lookup(key_from(cid)) IN
           /\ op' = [op EXCEPT ![h] =
                        [type |-> "got", id |-> cid, at |-> now,
                         res |-> IF found = None THEN Ok(None)
                                 ELSE LET c == Deserialize(found.val) IN
                                      IF c.ok THEN Ok(Some(c.val)) ELSE c]]
           /\ store' = [k \in (DOMAIN store) \ {key_from(cid)} |-> store[k]]
    /\ UNCHANGED <<now, lastPut>>
    /\ UNCHANGED ctxVars

\* get(id): one lookup of key_from(id); a hit is deserialized.
Get(h) ==
    /\ ~InFlight(h)
    /\ \E cid \in ComponentIds :
           LET found == Lookup(key_from(cid)) IN
           op' = [op EXCEPT ![h] =
                     [type |-> "got", id |-> cid, at |-> now,
                      res |-> IF found = None THEN Ok(None)
                              ELSE LET c == Deserialize(found.val) IN
                                   IF c.ok THEN Ok(Some(c.val)) ELSE c]]
    /\ UNCHANGED <<now, store, lastPut>>
    /\ UNCHANGED ctxVars

\* Time passes.
TickSteps == {150, 299}

Tick ==
    /\ \E d \in TickSteps : now + d <= MaxTime /\ now' = now + d
    /\ UNCHANGED <<store, op, lastPut>>
    /\ UNCHANGED ctxVars

\* ------------------------------------------------------- specifications
InitResolver ==
    /\ pc = [t \in Tasks |-> "idle"]
    /\ event = [t \in Tasks |-> None]
    /\ frame = [t \in Tasks |-> None]
    /\ calls = [t \in Tasks |-> <<>>]
    /\ reply = [t \in Tasks |-> None]
    /\ result = [t \in Tasks |-> None]
    /\ db = <<>>

InitStore ==
    /\ now = 0
    /\ store = <<>>
    /\ op = [h \in Handlers |-> Idle]
    /\ lastPut = [i \in ComponentIds |-> None]

Init == InitResolver /\ InitStore

NextResolver ==
    \E t \in Tasks :
        \/ FromCommand(t)
        \/ FromComponent(t)
        \/ FromModal(t)
        \/ GetGuildOrCreate(t)
        \/ GetGuildOrCreateFails(t)
        \/ ResumeGuildCommand(t)
        \/ ResumeGuildComponent(t)
        \/ ResumeGuildModal(t)

NextStore ==
    \/ \E h \in Handlers : PutCall(h) \/ PutApply(h) \/ Get(h)
    \/ Tick

SpecResolver == Init /\ [][NextResolver]_vars

SpecStore == Init /\ [][NextStore]_vars

\* ================================================================= claims
Started(t) == event[t] # None
Done(t) == pc[t] = "done"
Ev(t) == event[t].val
Res(t) == result[t].val
Returned(t) == Done(t) /\ Res(t).ok
Ctx(t) == Res(t).val

GuildScoped(ev) == ev.guild_id # None
WellFormedGuild(ev) ==
    GuildScoped(ev) /\ ev.member # None /\ ev.member.val.user # None
WellFormedPrivate(ev) == ~GuildScoped(ev) /\ ev.user # None

\* The spec's MissingField(field), as the code reports it: an anyhow error
\* whose message names the field.
MissingField(field) == anyhow("missing " \o field \o " data")

\* C1: whenever an entry point (of any of the three kinds, whatever the
\* accessor answered) returns a context, its guild field is present if and only
\* if the raw event carried a guild identifier, and then GuildContext.id is
\* that identifier.
C1_GuildIffGuildId ==
    \A t \in Tasks :
        Returned(t) =>
            /\ (Ctx(t).guild # None) <=> (Ev(t).guild_id # None)
            /\ Ctx(t).guild # None => Ctx(t).guild.val.id = Ev(t).guild_id.val

C1_Witness ==
    \E t1, t2 \in Tasks :
        /\ Returned(t1) /\ Ev(t1).kind = "command"
        /\ Ctx(t1).guild # None /\ Ctx(t1).guild.val.id = NumGuilds
        /\ Returned(t2) /\ Ev(t2).guild_id = None /\ Ctx(t2).guild = None

\* C2: a resolution of a well-formed guild-scoped event (member present with
\* an embedded user) invokes get_guild_or_create exactly once, with the
\* event's guild identifier; a resolution of a well-formed private event
\* never invokes it. For each of the three entry points.
C2_AccessorCalls ==
    \A t \in Tasks :
        Started(t) =>
            /\ WellFormedGuild(Ev(t)) => calls[t] = <<Ev(t).guild_id.val>>
            /\ WellFormedPrivate(Ev(t)) => calls[t] = <<>>

C2_Witness ==
    \E t1, t2 \in Tasks :
        /\ Done(t1) /\ Ev(t1).kind = "component" /\ WellFormedGuild(Ev(t1))
        /\ Ev(t1).user # None /\ calls[t1] = <<NumGuilds>>
        /\ Done(t2) /\ WellFormedPrivate(Ev(t2)) /\ calls[t2] = <<>>

\* C3: for the three kinds, a guild-scoped event without member data resolves
\* to the error MissingField("member"), and one whose member has no embedded
\* user to MissingField("user"); no context is returned.
C3_GuildMissingField ==
    \A t \in Tasks :
        (Started(t) /\ GuildScoped(Ev(t))) =>
            /\ Ev(t).member = None =>
                   Done(t) /\ Res(t) = Err(MissingField("member"))
            /\ (Ev(t).member # None /\ Ev(t).member.val.user = None) =>
                   Done(t) /\ Res(t) = Err(MissingField("user"))

C3_Witness ==
    \E t1, t2 \in Tasks :
        /\ Done(t1) /\ Ev(t1).kind = "component" /\ GuildScoped(Ev(t1))
        /\ Ev(t1).member = None /\ ~Res(t1).ok
        /\ Done(t2) /\ GuildScoped(Ev(t2)) /\ Ev(t2).member # None
        /\ Ev(t2).member.val.user = None /\ ~Res(t2).ok

\* C4: for the three kinds, a private event (no guild identifier) without a
\* top-level user resolves to the error MissingField("user") and to no
\* context, whether or not the event carries member data.
C4_PrivateMissingUser ==
    \A t \in Tasks :
        (Started(t) /\ ~GuildScoped(Ev(t)) /\ Ev(t).user = None) =>
            Done(t) /\ Res(t) = Err(MissingField("user"))

C4_Witness ==
    \E t \in Tasks :
        /\ Done(t) /\ Ev(t).kind = "modal" /\ ~GuildScoped(Ev(t))
        /\ Ev(t).user = None
        /\ Ev(t).member # None /\ Ev(t).member.val.user # None
        /\ ~Res(t).ok

\* C5: the three entry points agree up to the payload: two resolutions of
\* events that agree on every field but the kind and its payload make the same
\* accessor calls and, given the same accessor answer, end in the same kind of
\* outcome: the same error, or contexts equal in every field except data.
Envelope(ev) == [ev EXCEPT !.kind = "", !.data = ""]
ExceptData(r) == IF r.ok THEN Ok([r.val EXCEPT !.data = ""]) ELSE r

C5_EntryPointsAgree ==
    \A t1, t2 \in Tasks :
        (Done(t1) /\ Done(t2) /\ Envelope(Ev(t1)) = Envelope(Ev(t2))) =>
            /\ calls[t1] = calls[t2]
            /\ reply[t1] = reply[t2] => ExceptData(Res(t1)) = ExceptData(Res(t2))

C5_Witness ==
    \E t1, t2 \in Tasks :
        /\ Returned(t1) /\ Returned(t2)
        /\ Ev(t1).kind = "command" /\ Ev(t2).kind = "component"
        /\ Envelope(Ev(t1)) = Envelope(Ev(t2))
        /\ GuildScoped(Ev(t1))
        /\ Ctx(t1).data # Ctx(t2).data

\* C6: one configuration record per guild identifier: however the concurrent
\* guild-scoped resolutions of one guild interleave, the collection never
\* holds two records of that guild, and every resolution that returns a
\* context carries the record of its guild.
C6_OneRecordPerGuild ==
    /\ \A g \in GuildIds : Cardinality(GuildDocs(g)) <= 1
    /\ \A t \in Tasks :
           (Returned(t) /\ GuildScoped(Ev(t))) =>
               \A i \in GuildDocs(Ev(t).guild_id.val) :
                   Ctx(t).guild.val.guild = db[i]

C6_Witness ==
    \E t1, t2 \in Tasks :
        /\ t1 # t2
        /\ pc[t1] = "await" /\ reply[t1] # None /\ reply[t1].val.ok
        /\ Returned(t2) /\ GuildScoped(Ev(t2))
        /\ Ev(t1).guild_id = Ev(t2).guild_id
        /\ Cardinality(GuildDocs(Ev(t1).guild_id.val)) = 1

\* C11: when the accessor fails during a guild-scoped resolution, the
\* resolution returns the accessor's error, which is neither of the
\* MissingField errors, returns no context, and does not retry: the accessor
\* has been called exactly once when the error is returned.
AccessorFailed(t) == reply[t] # None /\ ~reply[t].val.ok

C11_AccessorFailurePropagates ==
    \A t \in Tasks :
        (Done(t) /\ AccessorFailed(t)) =>
            /\ ~Res(t).ok
            /\ Res(t) = Err(DependencyError)
            /\ Res(t) = reply[t].val
            /\ Res(t) # Err(MissingField("member"))
            /\ Res(t) # Err(MissingField("user"))
            /\ Len(calls[t]) = 1

C11_Witness ==
    \E t1, t2 \in Tasks :
        /\ Done(t1) /\ AccessorFailed(t1) /\ Ev(t1).kind = "modal"
        /\ Res(t1) = Err(DependencyError) /\ Len(calls[t1]) = 1
        /\ Returned(t2) /\ Ev(t2).guild_id = Ev(t1).guild_id

\* C14: in a guild-scoped resolution both the member check and the embedded
\* user check come before the accessor call: a resolution of a malformed guild
\* event (one that ends in a missing-member or missing-user failure) makes no
\* get_guild_or_create call, and every record of the collection was asked for
\* by a well-formed guild event.
C14_ChecksBeforeAccessor ==
    /\ \A t \in Tasks :
           /\ (Started(t) /\ GuildScoped(Ev(t)) /\ ~WellFormedGuild(Ev(t))) =>
                  calls[t] = <<>> /\ reply[t] = None
           /\ (Done(t) /\ Res(t) \in {Err(MissingField("member")),
                                      Err(MissingField("user"))}) =>
                  calls[t] = <<>>
    /\ \A i \in 1..Len(db) :
           \E t \in Tasks :
               /\ Started(t) /\ WellFormedGuild(Ev(t))
               /\ Ev(t).guild_id.val = db[i].id

C14_Witness ==
    \E t1, t2 \in Tasks :
        /\ Done(t1) /\ GuildScoped(Ev(t1)) /\ Ev(t1).kind = "command"
        /\ Ev(t1).member # None /\ Ev(t1).member.val.user = None
        /\ Res(t1) = Err(MissingField("user")) /\ calls[t1] = <<>>
        /\ Done(t2) /\ GuildScoped(Ev(t2)) /\ Ev(t2).member = None
        /\ Res(t2) = Err(MissingField("member")) /\ calls[t2] = <<>>
        /\ db = <<>>

\* C15: the user of a returned context is chosen by origin alone. Guild-scoped:
\* the user embedded in the member (a top-level user is ignored, its absence is
\* no error), GuildContext.member is the event's member and GuildContext.guild
\* the record the accessor returned. Private: the top-level user (member data
\* is ignored). id, application id, token, channel, locale and data are copied
\* from the event.
C15_UserByOrigin ==
    /\ \A t \in Tasks :
           Returned(t) =>
               /\ GuildScoped(Ev(t)) =>
                      /\ Ctx(t).user = Ev(t).member.val.user.val
                      /\ Ctx(t).guild.val.member = Ev(t).member.val
                      /\ Ctx(t).guild.val.guild = reply[t].val.val
               /\ ~GuildScoped(Ev(t)) => Ctx(t).user = Ev(t).user.val
               /\ Ctx(t).id = Ev(t).id
               /\ Ctx(t).application_id = Ev(t).application_id
               /\ Ctx(t).token = Ev(t).token
               /\ Ctx(t).channel = Ev(t).channel_id
               /\ Ctx(t).locale = Ev(t).locale
               /\ Ctx(t).data = Ev(t).data
    /\ \A t \in Tasks :
           (Done(t) /\ WellFormedGuild(Ev(t)) /\ ~AccessorFailed(t)) => Res(t).ok

C15_Witness ==
    \E t1, t2 \in Tasks :
        /\ Returned(t1) /\ GuildScoped(Ev(t1)) /\ Ev(t1).kind = "modal"
        /\ Ev(t1).user # None /\ Ev(t1).user.val # Ev(t1).member.val.user.val
        /\ Ctx(t1).user = Ev(t1).member.val.user.val
        /\ Returned(t2) /\ ~GuildScoped(Ev(t2))
        /\ Ev(t2).member # None /\ Ev(t2).member.val.user # None
        /\ Ev(t2).member.val.user.val # Ev(t2).user.val
        /\ Ctx(t2).user = Ev(t2).user.val

\* ------------------------------------------------ pending component store
\* A get call of handler h returns in this step.
GetReturns(h) == op'[h].type = "got" /\ op'[h] # op[h]
Got(h) == op[h].type = "got"
\* Seconds since the last completed put of the component id.
Elapsed(cid) == now - lastPut[cid].val.at

\* C7: for a PendingComponent c of either variant, put(c) followed
\* immediately by get(c.id) returns a component of the same variant with
\* every field equal to c.
C7_PutThenGet ==
    [][\A h \in Handlers :
          GetReturns(h) =>
              LET cid == op'[h].id IN
              (lastPut[cid] # None /\ Elapsed(cid) = 0) =>
                  op'[h].res = Ok(Some(lastPut[cid].val.c))]_vars

C7_Witness ==
    \E h1, h2 \in Handlers :
        /\ Got(h1) /\ Got(h2) /\ op[h1].at = now /\ op[h2].at = now
        /\ lastPut[op[h1].id] # None /\ lastPut[op[h2].id] # None
        /\ Elapsed(op[h1].id) = 0 /\ Elapsed(op[h2].id) = 0
        /\ op[h1].res = Ok(Some(lastPut[op[h1].id].val.c))
        /\ op[h2].res = Ok(Some(lastPut[op[h2].id].val.c))
        /\ op[h1].res.val.val.variant = "PostInChatButton"
        /\ op[h2].res.val.val.variant = "Sanction"

\* C8: get(id) returns an empty result, not an error, whenever id was never
\* stored or its last put was made 300 seconds or more earlier; no delete and
\* no scavenging step is involved: only time has passed.
C8_MissOrExpiredIsEmpty ==
    [][\A h \in Handlers :
          GetReturns(h) =>
              LET cid == op'[h].id IN
              (lastPut[cid] = None \/ Elapsed(cid) >= 300) =>
                  op'[h].res = Ok(None)]_vars

C8_Witness ==
    \E h1, h2 \in Handlers :
        /\ Got(h1) /\ op[h1].at = now /\ op[h1].res = Ok(None)
        /\ lastPut[op[h1].id] # None /\ Elapsed(op[h1].id) >= 300
        /\ key_from(op[h1].id) \in DOMAIN store
        /\ Got(h2) /\ op[h2].res = Ok(None) /\ lastPut[op[h2].id] = None

\* C9: after a second put to an id, sequential or racing with the first, a
\* get of that id (before the record expires) returns exactly the value of the
\* put that completed last: not the earlier value, not a mixture.
C9_LastPutWins ==
    [][\A h \in Handlers :
          GetReturns(h) =>
              LET cid == op'[h].id IN
              (/\ lastPut[cid] # None
               /\ lastPut[cid].val.over # "none"
               /\ Elapsed(cid) < 300) =>
                  op'[h].res = Ok(Some(lastPut[cid].val.c))]_vars

C9_Witness ==
    \E h \in Handlers :
        /\ Got(h) /\ op[h].at = now
        /\ lastPut[op[h].id] # None
        /\ lastPut[op[h].id].val.over = "raced"
        /\ op[h].res = Ok(Some(lastPut[op[h].id].val.c))
        /\ \A g \in Handlers : ~InFlight(g)

\* C10: id() is the id field embedded in the variant, and the key a component
\* is written under is key_from(id()), "pending:component:" followed by that
\* id: every record of the store lies under the key its id is looked up by.
C10_KeyOfId ==
    /\ \A h \in Handlers :
           InFlight(h) =>
               LET c == op[h].component IN
               /\ id(c) = c.component.id
               /\ op[h].key = key_from(id(c))
               /\ op[h].key = "pending:component:" \o c.component.id
    /\ \A k \in DOMAIN store :
           /\ Deserialize(store[k].value).ok
           /\ k = key_from(id(Deserialize(store[k].value).val))
           /\ k = "pending:component:" \o store[k].value.id

C10_Witness ==
    \E h \in Handlers :
        /\ InFlight(h)
        /\ op[h].component.variant = "Sanction"
        /\ op[h].key = "pending:component:Zp3w"
        /\ "pending:component:x7Kq" \in DOMAIN store
        /\ store["pending:component:x7Kq"].value.tag = "PostInChatButton"

\* C12: a pending record expires 300 seconds after the most recent put to its
\* key and nothing else moves that time: gets leave it unchanged, and a later
\* put to the same key restarts the full 300 seconds.
C12_ExpiryFromLastPut ==
    \A cid \in ComponentIds :
        lastPut[cid] # None =>
            /\ key_from(cid) \in DOMAIN store
            /\ store[key_from(cid)].expires_at = Some(lastPut[cid].val.at + 300)
            /\ Lookup(key_from(cid)) # None <=> Elapsed(cid) < 300

C12_Witness ==
    \E h \in Handlers :
        /\ Got(h) /\ op[h].at = now /\ now = 300
        /\ lastPut[op[h].id] # None
        /\ lastPut[op[h].id].val.at = 150
        /\ lastPut[op[h].id].val.over = "after"
        /\ op[h].res = Ok(Some(lastPut[op[h].id].val.c))
        /\ store[key_from(op[h].id)].expires_at = Some(450)

\* C13: the store holds at most one live pending record per id, whatever the
\* variant: the key depends on the id alone, so a put of one variant replaces a
\* live record of the other variant with the same id, and a lookup of the id
\* finds the variant of the latest put.
LiveRecords(cid) ==
    {k \in DOMAIN store : Live(store[k]) /\ store[k].value.id = cid}

C13_OneLiveRecordPerId ==
    \A cid \in ComponentIds :
        /\ Cardinality(LiveRecords(cid)) <= 1
        /\ (lastPut[cid] # None /\ Elapsed(cid) < 300) =>
               /\ LiveRecords(cid) = {key_from(cid)}
               /\ Lookup(key_from(cid)) # None
               /\ Lookup(key_from(cid)).val.tag = lastPut[cid].val.c.variant

C13_Witness ==
    \E h \in Handlers :
        /\ Got(h) /\ op[h].at = now
        /\ lastPut[op[h].id] # None
        /\ lastPut[op[h].id].val.c.variant = "Sanction"
        /\ lastPut[op[h].id].val.over = "after"
        /\ Elapsed(op[h].id) = 0
        /\ op[h].res.ok /\ op[h].res.val # None
        /\ op[h].res.val.val.variant = "Sanction"
        /\ Cardinality(LiveRecords(op[h].id)) = 1

\* C16: a get does not consume: it leaves the store as it was, and from a put
\* to the record's expiry (no other put to the id in between) every get of the
\* id, repeated by one handler or made by several, returns the stored value.
C16_GetDoesNotConsume ==
    [][\A h \in Handlers :
          GetReturns(h) =>
              LET cid == op'[h].id IN
              /\ store' = store
              /\ (lastPut[cid] # None /\ Elapsed(cid) < 300) =>
                     op'[h].res = Ok(Some(lastPut[cid].val.c))]_vars

C16_Witness ==
    \E h1, h2 \in Handlers :
        /\ h1 # h2 /\ Got(h1) /\ Got(h2)
        /\ op[h1].id = op[h2].id
        /\ lastPut[op[h1].id] # None /\ lastPut[op[h1].id].val.at = 0
        /\ op[h1].at = 0 /\ op[h2].at = 299 /\ now = 299
        /\ op[h1].res = Ok(Some(lastPut[op[h1].id].val.c))
        /\ op[h2].res = op[h1].res
        /\ Lookup(key_from(op[h1].id)) # None

====
